---- MODULE Spec2Model ----
(***************************************************************************)
(* Dodge the Blocks (src/game.js): the simulation loop, the game           *)
(* controller and the host's animation-frame scheduler.                    *)
(*                                                                         *)
(* The program computes with real numbers.  Every quantity is kept here as *)
(* an exact integer multiple of a fixed unit, so that no operation of the  *)
(* code rounds:                                                            *)
(*   times (elapsed, spawnTimer, lastTime, dt, the clock)  1 ms            *)
(*   spawnInterval                                         1/50 ms         *)
(*   block speed                                           1/50 px/s       *)
(*   lengths (x, y, w, h, canvas size)                     1/50000 px      *)
(* With these units  elapsed * 0.02 [s]  is  elapsed [1/50 ms],            *)
(* elapsed * 20 [px/s]  is  elapsed [1/50 px/s],  and  speed * dt  is the  *)
(* plain product of the two integers.                                      *)
(***************************************************************************)
EXTENDS Integers, Sequences, FiniteSets, TLC

\* ---- units ----
MsPerSecond == 1000                 \* loop: (now - lastTime) / 1000
PerUnit == 50                       \* 1 / 0.02, the difficulty factor of update
Px == PerUnit * MsPerSecond         \* length units per pixel
Rate(pxPerSecond) == pxPerSecond * PerUnit   \* a speed in 1/50 px/s
Seconds(ms) == ms * PerUnit         \* a time in ms as a spawnInterval (1/50 ms)

\* ---- bounds of the model ----
MaxElapsed == 32000                 \* no refresh takes a run beyond this (ms)
DtSet == {500, 1000, 10000}         \* time between two display refreshes (ms)
WidthSet == {30, 69}                \* Math.floor(rand(30, 70)), px
JitterSet == {0, 2999}              \* rand(0, 60) in 1/50 px/s
ShapeRolls == {0, 1}                \* Math.random() < 0.5, or not
KeyNames == {"ArrowLeft", "a", "ArrowRight", "d", "Escape"}

\* ---- DOM and canvas setup ----
\* The page markup is not among the sources: the canvas has the size an HTML
\* canvas element has by default, 300 x 150.
CanvasWidthPx == 300
CanvasHeightPx == 150
canvas == [width |-> CanvasWidthPx * Px, height |-> CanvasHeightPx * Px]

VARIABLES
  running,        \* whether the game loop is running
  lastTime,       \* timestamp of last frame
  elapsed,        \* time since game start
  spawnTimer,     \* time accumulator for spawning blocks
  spawnInterval,  \* time between spawns
  blocks,         \* active falling blocks, blocks[1] is the code's blocks[0]
  player,         \* the player record
  keys,           \* input state
  scoreEl,        \* textContent of the score element
  rafQueue,       \* callbacks registered with requestAnimationFrame, in order
  frame,          \* callbacks of the display refresh under way, still to run
  clock,          \* the host's clock (performance.now(), the frame timestamp),
                  \* read from the end of the latest display refresh
  event           \* the handler that ran last, and the branch it took

vars == <<running, lastTime, elapsed, spawnTimer, spawnInterval, blocks, player,
          keys, scoreEl, rafQueue, frame, clock, event>>

\* The program's globals, and the scheduler's callback list, as one record:
\* every function of the code is an operator from such a record to the next.
G == [running |-> running, lastTime |-> lastTime, elapsed |-> elapsed,
      spawnTimer |-> spawnTimer, spawnInterval |-> spawnInterval,
      blocks |-> blocks, player |-> player, keys |-> keys,
      scoreEl |-> scoreEl, rafQueue |-> rafQueue]

Store(g) ==
  /\ running' = g.running
  /\ lastTime' = g.lastTime
  /\ elapsed' = g.elapsed
  /\ spawnTimer' = g.spawnTimer
  /\ spawnInterval' = g.spawnInterval
  /\ blocks' = g.blocks
  /\ player' = g.player
  /\ keys' = g.keys
  /\ scoreEl' = g.scoreEl
  /\ rafQueue' = g.rafQueue

\* ---- Utilities ----
Max(a, b) == IF a >= b THEN a ELSE b
Min(a, b) == IF a <= b THEN a ELSE b
clamp(v, a, b) == Max(a, Min(b, v))

\* Format time in seconds with two decimals: the number of hundredths,
\* rounded to nearest.
formatTime(t) == (t + 5) \div 10

\* Update visible score HUD
updateScoreDisplay(g, t) == [g EXCEPT !.scoreEl = <<"Score: ", formatTime(t)>>]

\* requestAnimationFrame(loop).  Each registration remembers who made it and
\* the value of running at that moment.
requestAnimationFrame(g, by) ==
  [g EXCEPT !.rafQueue = Append(@, [by |-> by, running |-> g.running])]

\* A variant of checkCollision whose last test compares the two bottom edges.
checkCollisionBottoms(a, b) ==
  /\ a.x < b.x + b.w
  /\ a.x + a.w > b.x
  /\ a.y < b.y + b.h
  /\ a.y + a.h > b.y + b.h

\* A variant of checkCollision that counts the left edge of a as inside b's
\* right edge when the two coincide.
checkCollisionTouching(a, b) ==
  /\ a.x <= b.x + b.w
  /\ a.x + a.w > b.x
  /\ a.y < b.y + b.h
  /\ a.y + a.h > b.y

\* Check axis-aligned bounding box collision between two rects
checkCollision(a, b) ==
  /\ a.x < b.x + b.w
  /\ a.x + a.w > b.x
  /\ a.y < b.y + b.h
  /\ a.y + a.h > b.y

\* ---- Game state as declared, before the load-time resetGame ----
Declared ==
  [running |-> FALSE, lastTime |-> 0, elapsed |-> 0, spawnTimer |-> 0,
   spawnInterval |-> Seconds(900), blocks |-> <<>>,
   player |-> [w |-> 28 * Px, h |-> 18 * Px,
               x |-> canvas.width \div 2 - 24 * Px,
               y |-> canvas.height - 80 * Px,
               speed |-> Rate(280), vx |-> 0],
   keys |-> [left |-> FALSE, right |-> FALSE],
   scoreEl |-> <<>>, rafQueue |-> <<>>]

\* ---- Game functions ----
\* A variant of resetGame that leaves the input state as it is.
resetGameKeepsKeys(g) ==
  updateScoreDisplay(
    [g EXCEPT !.running = FALSE,
              !.lastTime = 0,
              !.elapsed = 0,
              !.spawnTimer = 0,
              !.spawnInterval = Seconds(900),
              !.blocks = <<>>,
              !.player.x = canvas.width \div 2 - g.player.w \div 2,
              !.player.y = canvas.height - g.player.h - 20 * Px],
    0)

\* Reset game state for a new run
resetGame(g) ==
  updateScoreDisplay(
    [g EXCEPT !.running = FALSE,
              !.lastTime = 0,
              !.elapsed = 0,
              !.spawnTimer = 0,
              !.spawnInterval = Seconds(900),
              !.blocks = <<>>,
              !.player.x = canvas.width \div 2 - g.player.w \div 2,
              !.player.y = canvas.height - g.player.h - 20 * Px,
              !.keys = [left |-> FALSE, right |-> FALSE]],
    0)

\* Start the game loop
startGame(g, performanceNow) ==
  requestAnimationFrame(
    [resetGame(g) EXCEPT !.running = TRUE, !.lastTime = performanceNow],
    "startGame")

\* A variant of endGame that also clears the blocks.
endGameClearsBlocks(g) == [g EXCEPT !.running = FALSE, !.blocks = <<>>]

\* End the game
endGame(g) == [g EXCEPT !.running = FALSE]

\* A variant of spawnBlock whose speed does not grow with the time played.
spawnBlockConstantSpeed(g, bw, bx, jitter, roll) ==
  LET b == [x |-> bx * Px, y |-> -(bw * Px), w |-> bw * Px, h |-> bw * Px,
            speed |-> Rate(120) + jitter,
            shape |-> IF roll = 0 THEN "rect" ELSE "circle"]
  IN [g EXCEPT !.blocks = Append(@, b)]

\* Spawn a new falling block at a random x with random size.  bw, bx, jitter
\* and roll are the four random draws.
spawnBlock(g, bw, bx, jitter, roll) ==
  LET speedBase == Rate(120) + g.elapsed
      b == [x |-> bx * Px, y |-> -(bw * Px), w |-> bw * Px, h |-> bw * Px,
            speed |-> speedBase + jitter,
            shape |-> IF roll = 0 THEN "rect" ELSE "circle"]
  IN [g EXCEPT !.blocks = Append(@, b)]

\* blocks.splice(i, 1)
splice(s, i) == SubSeq(s, 1, i - 1) \o SubSeq(s, i + 1, Len(s))

\* A variant of the for loop that removes a block as soon as its bottom edge
\* leaves the playfield.
RECURSIVE blockLoopBottomEdge(_, _, _)
blockLoopBottomEdge(g, i, dt) ==
  IF i < 1 THEN g
  ELSE LET b == [g.blocks[i] EXCEPT !.y = @ + g.blocks[i].speed * dt]
           moved == [g EXCEPT !.blocks[i] = b]
       IN IF b.y + b.h > canvas.height
            THEN blockLoopBottomEdge([moved EXCEPT !.blocks = splice(@, i)], i - 1, dt)
          ELSE IF checkCollision(moved.player, b)
            THEN blockLoopBottomEdge(endGame(moved), i - 1, dt)
          ELSE blockLoopBottomEdge(moved, i - 1, dt)

\* A variant of the for loop that compares a block's y with the width of the
\* playfield instead of its height.
RECURSIVE blockLoopWidth(_, _, _)
blockLoopWidth(g, i, dt) ==
  IF i < 1 THEN g
  ELSE LET b == [g.blocks[i] EXCEPT !.y = @ + g.blocks[i].speed * dt]
           moved == [g EXCEPT !.blocks[i] = b]
       IN IF b.y > canvas.width
            THEN blockLoopWidth([moved EXCEPT !.blocks = splice(@, i)], i - 1, dt)
          ELSE IF checkCollision(moved.player, b)
            THEN blockLoopWidth(endGame(moved), i - 1, dt)
          ELSE blockLoopWidth(moved, i - 1, dt)

\* A variant of the for loop that stops at the first block that hits the
\* player.
RECURSIVE blockLoopStopsAtHit(_, _, _)
blockLoopStopsAtHit(g, i, dt) ==
  IF i < 1 THEN g
  ELSE LET b == [g.blocks[i] EXCEPT !.y = @ + g.blocks[i].speed * dt]
           moved == [g EXCEPT !.blocks[i] = b]
       IN IF b.y > canvas.height
            THEN blockLoopStopsAtHit([moved EXCEPT !.blocks = splice(@, i)], i - 1, dt)
          ELSE IF checkCollision(moved.player, b)
            THEN endGame(moved)
          ELSE blockLoopStopsAtHit(moved, i - 1, dt)

\* The body of update's for loop, for index i down to the first block.
RECURSIVE blockLoop(_, _, _)
blockLoop(g, i, dt) ==
  IF i < 1 THEN g
  ELSE LET b == [g.blocks[i] EXCEPT !.y = @ + g.blocks[i].speed * dt]
           moved == [g EXCEPT !.blocks[i] = b]
       IN IF b.y > canvas.height
            THEN blockLoop([moved EXCEPT !.blocks = splice(@, i)], i - 1, dt)
          ELSE IF checkCollision(moved.player, b)
            THEN blockLoop(endGame(moved), i - 1, dt)
          ELSE blockLoop(moved, i - 1, dt)

\* The x positions spawnBlock can draw for a block of width bw (px):
\* Math.floor(rand(0, canvas.width - bw)).  The draws kept are the two ends of
\* the range and the positions around the player's starting column.
XSet(bw) == {0, CanvasWidthPx \div 2 - bw \div 2, CanvasWidthPx - bw - 1}

\* A variant of lines 77-80 that computes the interval from the time before
\* this frame.
tightenSpawnIntervalStale(g, dt) ==
  LET g1 == [g EXCEPT !.spawnInterval =
               clamp(Seconds(900) - g.elapsed, Seconds(280), Seconds(900))]
  IN [g1 EXCEPT !.elapsed = @ + dt]

\* update, lines 77-80: update elapsed time and difficulty
tightenSpawnInterval(g, dt) ==
  LET g1 == [g EXCEPT !.elapsed = @ + dt]
  IN [g1 EXCEPT !.spawnInterval =
        clamp(Seconds(900) - g1.elapsed, Seconds(280), Seconds(900))]

\* A variant of lines 83-85 that clamps at the left edge only.
movePlayerOpenRight(g, dt) ==
  LET dir == (IF g.keys.right THEN 1 ELSE 0) - (IF g.keys.left THEN 1 ELSE 0)
      g1 == [g EXCEPT !.player.x = @ + dir * g.player.speed * dt]
  IN [g1 EXCEPT !.player.x = Max(@, 0)]

\* A variant of lines 83-85 in which the right key wins over the left one.
movePlayerRightWins(g, dt) ==
  LET dir == IF g.keys.right THEN 1 ELSE IF g.keys.left THEN -1 ELSE 0
      g1 == [g EXCEPT !.player.x = @ + dir * g.player.speed * dt]
  IN [g1 EXCEPT !.player.x = clamp(@, 0, canvas.width - g1.player.w)]

\* update, lines 83-85: handle player movement
movePlayer(g, dt) ==
  LET dir == (IF g.keys.right THEN 1 ELSE 0) - (IF g.keys.left THEN 1 ELSE 0)
      g1 == [g EXCEPT !.player.x = @ + dir * g.player.speed * dt]
  IN [g1 EXCEPT !.player.x = clamp(@, 0, canvas.width - g1.player.w)]

\* A variant of lines 88-92 that keeps the time by which the timer overshot
\* the interval.
spawnWhenDueCarries(g, dt, draw) ==
  LET g1 == [g EXCEPT !.spawnTimer = @ + dt]
  IN IF Seconds(g1.spawnTimer) >= g1.spawnInterval
       THEN [spawnBlock(g1, draw.bw, draw.bx, draw.jitter, draw.roll)
               EXCEPT !.spawnTimer = (Seconds(@) - g1.spawnInterval) \div PerUnit]
       ELSE g1

\* update, lines 88-92: spawn new blocks when timer passes interval
spawnWhenDue(g, dt, draw) ==
  LET g1 == [g EXCEPT !.spawnTimer = @ + dt]
  IN IF Seconds(g1.spawnTimer) >= g1.spawnInterval
       THEN [spawnBlock(g1, draw.bw, draw.bx, draw.jitter, draw.roll)
               EXCEPT !.spawnTimer = 0]
       ELSE g1

\* Update positions and game logic.  draw is the record of random draws
\* spawnBlock makes if it is called.
update(g, dt, draw) ==
  LET g1 == spawnWhenDue(movePlayer(tightenSpawnInterval(g, dt), dt), dt, draw)
  IN blockLoop(g1, Len(g1.blocks), dt)

\* A variant of loop without the test of running.
loopUnguarded(g, now, draw) ==
  LET dt == now - g.lastTime
      g1 == [g EXCEPT !.lastTime = now]
      g2 == update(g1, dt, draw)
      g3 == updateScoreDisplay(g2, g2.elapsed)
  IN requestAnimationFrame(g3, "loop")

\* A variant of loop that asks for the next frame before it tests running.
loopRegistersFirst(g, now, draw) ==
  IF ~g.running THEN requestAnimationFrame(g, "loop")
  ELSE LET dt == now - g.lastTime
           g1 == [g EXCEPT !.lastTime = now]
           g2 == update(g1, dt, draw)
           g3 == updateScoreDisplay(g2, g2.elapsed)
       IN requestAnimationFrame(g3, "loop")

\* A variant of loop that pushes the score before it runs update.
loopScoreFirst(g, now, draw) ==
  IF ~g.running THEN g
  ELSE LET dt == now - g.lastTime
           g1 == [g EXCEPT !.lastTime = now]
           g2 == updateScoreDisplay(g1, g1.elapsed)
           g3 == update(g2, dt, draw)
       IN requestAnimationFrame(g3, "loop")

\* Main loop using requestAnimationFrame.  draw() paints and changes nothing.
loop(g, now, draw) ==
  IF ~g.running THEN g
  ELSE LET dt == now - g.lastTime
           g1 == [g EXCEPT !.lastTime = now]
           g2 == update(g1, dt, draw)
           g3 == updateScoreDisplay(g2, g2.elapsed)
       IN requestAnimationFrame(g3, "loop")

\* Input handlers
keydown(g, key) ==
  LET g1 == IF key = "ArrowLeft" \/ key = "a" THEN [g EXCEPT !.keys.left = TRUE] ELSE g
  IN IF key = "ArrowRight" \/ key = "d" THEN [g1 EXCEPT !.keys.right = TRUE] ELSE g1

keyup(g, key) ==
  LET g1 == IF key = "ArrowLeft" \/ key = "a" THEN [g EXCEPT !.keys.left = FALSE] ELSE g
  IN IF key = "ArrowRight" \/ key = "d" THEN [g1 EXCEPT !.keys.right = FALSE] ELSE g1

\* A variant of the click handler without the test of running.
startBtnClickAlways(g, performanceNow) == startGame(g, performanceNow)

\* Buttons
startBtnClick(g, performanceNow) ==
  IF ~g.running THEN startGame(g, performanceNow) ELSE g

\* The random draws of one spawnBlock call.  The shape never enters the
\* simulation, so each width is drawn with one of the two shapes.
Draws ==
  { d \in UNION {[bw : {bw}, bx : XSet(bw), jitter : JitterSet, roll : ShapeRolls] :
                   bw \in WidthSet} :
      d.roll = (IF d.bw = 30 THEN 0 ELSE 1) }

\* ---- the page ----
\* What the page did last: the handler, the branch it took and, for a frame
\* callback, the registration that was delivered.
NoCallback == [by |-> "none", running |-> FALSE]
Event(op, cb) == [op |-> op, cb |-> cb]

\* Initialize position and HUD on load
Init ==
  LET g == resetGame(Declared)
  IN /\ running = g.running
     /\ lastTime = g.lastTime
     /\ elapsed = g.elapsed
     /\ spawnTimer = g.spawnTimer
     /\ spawnInterval = g.spawnInterval
     /\ blocks = g.blocks
     /\ player = g.player
     /\ keys = g.keys
     /\ scoreEl = g.scoreEl
     /\ rafQueue = g.rafQueue
     /\ frame = <<>>
     /\ clock = 0
     /\ event = Event("load", NoCallback)

\* Handlers run to completion: none starts while the callbacks of a display
\* refresh are being run.
Idle == frame = <<>>

KeyDown ==
  /\ Idle
  /\ \E key \in KeyNames : Store(keydown(G, key))
  /\ event' = Event("keydown", NoCallback)
  /\ UNCHANGED <<frame, clock>>

KeyUp ==
  /\ Idle
  /\ \E key \in KeyNames : Store(keyup(G, key))
  /\ event' = Event("keyup", NoCallback)
  /\ UNCHANGED <<frame, clock>>

Click ==
  /\ Idle
  /\ Store(startBtnClick(G, clock))
  /\ event' = Event("click", NoCallback)
  /\ UNCHANGED <<frame, clock>>

\* A display refresh: the host takes the callbacks registered so far and runs
\* them one after the other with the same timestamp; callbacks registered
\* meanwhile wait for the next refresh.
BeginFrame ==
  /\ Idle
  /\ rafQueue # <<>>
  /\ \E d \in DtSet :
       /\ running => elapsed + (clock + d - lastTime) <= MaxElapsed
       /\ clock' = clock + d
  /\ frame' = rafQueue
  /\ rafQueue' = <<>>
  /\ event' = Event("refresh", NoCallback)
  /\ UNCHANGED <<running, lastTime, elapsed, spawnTimer, spawnInterval, blocks,
                 player, keys, scoreEl>>

\* The code uses timestamps only through their differences (loop's
\* now - lastTime), so when a refresh ends the origin of the clock is moved to
\* its timestamp: origin is the amount subtracted from every timestamp held.
Rebase(g, origin) == [g EXCEPT !.lastTime = @ - origin]

\* The delivery of the next callback of the refresh under way: loop(now).
Deliver(draw) ==
  LET g == loop(G, clock, draw)
  IN /\ IF Tail(frame) = <<>>
          THEN Store(Rebase(g, clock)) /\ clock' = 0
          ELSE Store(g) /\ clock' = clock
     /\ frame' = Tail(frame)

\* loop is delivered while running is false (line 130).
LoopReturns ==
  /\ frame # <<>>
  /\ ~running
  /\ \E draw \in Draws : Deliver(draw)
  /\ event' = Event("loop return", Head(frame))

\* loop is delivered while running is true (lines 131-136).
LoopUpdates ==
  /\ frame # <<>>
  /\ running
  /\ \E draw \in Draws : Deliver(draw)
  /\ event' = Event("loop update", Head(frame))

Next == KeyDown \/ KeyUp \/ Click \/ BeginFrame \/ LoopReturns \/ LoopUpdates

Spec == Init /\ [][Next]_vars

\* The host runs a display refresh whenever callbacks are registered, and
\* delivers the callbacks of a refresh it has begun.  Only the deliveries to a
\* stopped game are needed for the loop to end.
FairSpec == Spec /\ WF_vars(BeginFrame) /\ WF_vars(LoopReturns)

\* ---- checkCollision on its own ----
\* The collision test of line 99 on arbitrary rectangles: the player and the
\* single block are any two rectangles of a small grid (sides of 0, 1 or 2
\* units), and the test is applied to them in both orders.
GridMax == 3
SideMax == 2
Rects == [x : 0..GridMax, y : 0..GridMax, w : 0..SideMax, h : 0..SideMax]
Rect(r) == [x |-> r.x, y |-> r.y, w |-> r.w, h |-> r.h]

CollisionInit ==
  LET g == resetGame(Declared)
  IN /\ running = TRUE
     /\ lastTime = g.lastTime
     /\ elapsed = g.elapsed
     /\ spawnTimer = g.spawnTimer
     /\ spawnInterval = g.spawnInterval
     /\ \E a \in Rects : player = [g.player EXCEPT !.x = a.x, !.y = a.y, !.w = a.w, !.h = a.h]
     /\ \E b \in Rects : blocks = <<[x |-> b.x, y |-> b.y, w |-> b.w, h |-> b.h,
                                      speed |-> Rate(120), shape |-> "rect"]>>
     /\ keys = g.keys
     /\ scoreEl = g.scoreEl
     /\ rafQueue = g.rafQueue
     /\ frame = <<>>
     /\ clock = 0
     /\ event = Event("load", NoCallback)

TestCollision ==
  /\ event.op = "load"
  /\ event' = [op |-> "checkCollision", cb |-> NoCallback,
               ab |-> checkCollision(player, blocks[1]),
               ba |-> checkCollision(blocks[1], player)]
  /\ UNCHANGED <<running, lastTime, elapsed, spawnTimer, spawnInterval, blocks,
                 player, keys, scoreEl, rafQueue, frame, clock>>

CollisionSpec == CollisionInit /\ [][TestCollision]_vars

\* ---- properties ----

\* C1: in every reachable state the player lies within the playfield,
\* 0 <= player.x <= canvas.width - player.w.
PlayerInsidePlayfield ==
  /\ 0 <= player.x
  /\ player.x <= canvas.width - player.w

\* An update has just pushed the player against the right edge: the right key
\* is held and the player sits where the clamp puts it.
PlayerClampedRight ==
  /\ event.op = "loop update"
  /\ keys.right /\ ~keys.left
  /\ player.x = canvas.width - player.w

\* C2: spawnInterval stays within [0.28 s, 0.9 s]; it is 0.9 s whenever
\* elapsed is 0, and 0.28 s whenever elapsed is at least 31 s.
SpawnIntervalRange ==
  /\ Seconds(280) <= spawnInterval
  /\ spawnInterval <= Seconds(900)
  /\ elapsed = 0 => spawnInterval = Seconds(900)
  /\ elapsed >= 31 * MsPerSecond => spawnInterval = Seconds(280)

\* An update has just taken elapsed to exactly 31 s.
SpawnIntervalAtFloor ==
  /\ event.op = "loop update"
  /\ elapsed = 31 * MsPerSecond
  /\ spawnInterval = Seconds(280)

\* Two rectangles share an area: neither lies entirely to one side of the
\* other.
Overlapping(a, b) ==
  ~ \/ a.x + a.w <= b.x
    \/ b.x + b.w <= a.x
    \/ a.y + a.h <= b.y
    \/ b.y + b.h <= a.y

SomeBlockOnPlayer == \E i \in DOMAIN blocks : Overlapping(player, blocks[i])

\* C3: when an update returns and a block it kept overlaps the player (both
\* at the positions that update gave them), running is false.
OverlapEndsRun ==
  (event.op = "loop update" /\ SomeBlockOnPlayer) => ~running

\* An update has just returned with a block on the player.
OverlapSeen ==
  /\ event.op = "loop update"
  /\ SomeBlockOnPlayer
  /\ ~running

\* The blocks that a frame of length dt leaves of the sequence s: each one
\* advanced by speed * dt, those beyond the bottom edge dropped, order kept.
Advanced(s, dt) == [i \in DOMAIN s |-> [s[i] EXCEPT !.y = @ + s[i].speed * dt]]
Survivors(s, dt) ==
  LET Inside(b) == b.y <= canvas.height
  IN SelectSeq(Advanced(s, dt), Inside)

\* C4: an update of length dt advances every block by its speed * dt, which
\* is a strict increase when dt > 0, and removes exactly the blocks whose
\* advanced y exceeds the playfield height: the blocks it leaves are the
\* earlier blocks with advanced y <= canvas.height, in order, followed by at
\* most one new block, and all of them have y <= canvas.height.
BlocksFallAndLeave ==
  [][event'.op = "loop update" =>
       LET dt == elapsed' - elapsed
           kept == Survivors(blocks, dt)
       IN /\ dt > 0 => \A i \in DOMAIN blocks : Advanced(blocks, dt)[i].y > blocks[i].y
          /\ Len(blocks') \in {Len(kept), Len(kept) + 1}
          /\ SubSeq(blocks', 1, Len(kept)) = kept
          /\ \A i \in DOMAIN blocks' : blocks'[i].y <= canvas.height]_vars

\* An update has just spawned a block (the timer is back at 0) and removed
\* every block, the new one included: the frame was long enough for each to
\* cross the bottom edge.
AllBlocksLeft ==
  /\ event.op = "loop update"
  /\ running
  /\ elapsed > 0
  /\ spawnTimer = 0
  /\ blocks = <<>>

\* The registration loop makes at line 136 in the frame in which the game
\* ended: running was already false.
ExtraCallback == [by |-> "loop", running |-> FALSE]

\* C5: the callback registered by the frame in which the game ended does
\* nothing when it is delivered: it never runs update.
ExtraFrameDoesNothing ==
  ~(event.op = "loop update" /\ event.cb = ExtraCallback)

\* C6: while running stays false no frame callback runs update: elapsed,
\* spawnTimer, spawnInterval, the player and the blocks do not change.
FrozenWhileStopped ==
  [][(~running /\ ~running') =>
       /\ UNCHANGED <<elapsed, spawnTimer, spawnInterval, player, blocks>>
       /\ event'.op # "loop update"]_vars

\* A frame callback was delivered after the game had ended, with the final
\* blocks still in place.
CallbackAfterGameOver ==
  /\ event.op = "loop return"
  /\ ~running
  /\ elapsed > 0
  /\ SomeBlockOnPlayer

\* The player is horizontally centred, 20 px above the bottom edge.
PlayerAtStart(p) ==
  /\ 2 * p.x + p.w = canvas.width
  /\ p.y + p.h + 20 * Px = canvas.height

\* C7: from every reachable state resetGame gives running = false,
\* elapsed = 0, spawnTimer = 0, spawnInterval = 0.9 s, no blocks, the player
\* at its starting place, both keys released and a score of 0.00; a second
\* resetGame changes nothing more.
ResetGameResult ==
  LET r == resetGame(G)
  IN /\ ~r.running
     /\ r.elapsed = 0
     /\ r.spawnTimer = 0
     /\ r.spawnInterval = Seconds(900)
     /\ r.blocks = <<>>
     /\ PlayerAtStart(r.player)
     /\ ~r.keys.left /\ ~r.keys.right
     /\ r.scoreEl = <<"Score: ", 0>>
     /\ resetGame(r) = r

\* A game is over with everything resetGame has to undo: blocks in place,
\* time on the clock, a key held, the player off centre, a score shown.
StateToReset ==
  /\ ~running
  /\ elapsed > 0
  /\ spawnTimer > 0
  /\ blocks # <<>>
  /\ keys.left
  /\ ~PlayerAtStart(player)
  /\ scoreEl # <<"Score: ", 0>>

\* C8: a click while running changes nothing and registers no callback; a
\* click while not running leaves a fresh run: running, elapsed = 0,
\* spawnTimer = 0, spawnInterval = 0.9 s, no blocks, keys released, the player
\* at its starting place, lastTime the time of the click, and one more callback
\* registered.
StartRequest ==
  [][event'.op = "click" =>
       IF running
         THEN UNCHANGED <<running, lastTime, elapsed, spawnTimer, spawnInterval,
                          blocks, player, keys, scoreEl, rafQueue, frame, clock>>
         ELSE /\ running'
              /\ lastTime' = clock
              /\ elapsed' = 0
              /\ spawnTimer' = 0
              /\ spawnInterval' = Seconds(900)
              /\ blocks' = <<>>
              /\ ~keys'.left /\ ~keys'.right
              /\ PlayerAtStart(player')
              /\ rafQueue' = Append(rafQueue, [by |-> "startGame", running |-> TRUE])]_vars

\* A click has just been ignored in the middle of a run.
ClickWhileRunning ==
  /\ event.op = "click"
  /\ running
  /\ elapsed > 0
  /\ blocks # <<>>
  /\ keys.right

\* C9: endGame changes running and nothing else, and a second endGame changes
\* nothing; so a game that is over keeps its final blocks, the one that hit
\* the player among them, until the next reset.
EndGameOnlyStops ==
  LET e == endGame(G)
  IN /\ ~e.running
     /\ e.blocks = blocks /\ e.player = player /\ e.keys = keys
     /\ e.elapsed = elapsed /\ e.spawnTimer = spawnTimer
     /\ e.spawnInterval = spawnInterval
     /\ e.lastTime = lastTime /\ e.scoreEl = scoreEl /\ e.rafQueue = rafQueue
     /\ endGame(e) = e
     /\ (~running /\ elapsed > 0) => SomeBlockOnPlayer

\* An update has just ended the game with more than one block in play.
GameOverSnapshot ==
  /\ event.op = "loop update"
  /\ ~running
  /\ Len(blocks) >= 2
  /\ SomeBlockOnPlayer

NoCallbackPending == rafQueue = <<>> /\ frame = <<>>

\* C10: a callback delivered while running is false registers no further
\* callback; so, if the host delivers every registered callback, whenever
\* running is false either a start request makes it true again or a state is
\* reached with no callback pending; and from then on none is pending for as
\* long as running stays false.
LoopTerminates ==
  /\ [][event'.op = "loop return" => rafQueue' = rafQueue]_vars
  /\ ~running ~> (running \/ NoCallbackPending)
  /\ [][(~running /\ NoCallbackPending /\ ~running') => NoCallbackPending']_vars

\* The loop has stopped after a game: the last callback returned without
\* registering another.
LoopStopped ==
  /\ event.op = "loop return"
  /\ ~running
  /\ elapsed > 0
  /\ NoCallbackPending

\* Two rectangles are apart along an axis: separated by a gap, or touching.
ApartX(a, b) == a.x + a.w <= b.x \/ b.x + b.w <= a.x
ApartY(a, b) == a.y + a.h <= b.y \/ b.y + b.h <= a.y

\* C11: checkCollision gives the same answer for (a, b) and (b, a); it is
\* true for two identical rectangles of positive width and height; it is
\* false for rectangles apart, or only touching, along the x or the y axis.
CollisionSymmetric ==
  event.op = "checkCollision" =>
    LET a == Rect(player)
        b == Rect(blocks[1])
    IN /\ event.ab = event.ba
       /\ (a = b /\ a.w > 0 /\ a.h > 0) => event.ab
       /\ (ApartX(a, b) \/ ApartY(a, b)) => ~event.ab

\* The test has been applied to two rectangles that touch along x and share
\* a range of y, and has answered false.
TouchingRectsTested ==
  /\ event.op = "checkCollision"
  /\ player.x + player.w = blocks[1].x
  /\ player.w > 0 /\ blocks[1].w > 0
  /\ ~ApartY(Rect(player), Rect(blocks[1]))
  /\ ~event.ab

\* C12: an update of length dt leaves the player at
\* clamp(x + dir * speed * dt, 0, canvas.width - w), dir being 1 for the right
\* key alone, -1 for the left key alone and 0 otherwise: with both keys or no
\* key held x does not change, with the right key alone and dt = 1 s the
\* unclamped x is 280 px further right; y, w, h and the keys are unchanged.
PlayerMovesAsSteered ==
  [][event'.op = "loop update" =>
       LET dt == elapsed' - elapsed
           dir == (IF keys.right THEN 1 ELSE 0) - (IF keys.left THEN 1 ELSE 0)
           target == player.x + dir * player.speed * dt
           rightEdge == canvas.width - player.w
       IN /\ player'.x = IF target < 0 THEN 0
                         ELSE IF target > rightEdge THEN rightEdge ELSE target
          /\ (keys.left = keys.right) => player'.x = player.x
          /\ (keys.right /\ ~keys.left /\ dt = MsPerSecond)
                => target = player.x + 280 * Px
          /\ player'.y = player.y /\ player'.w = player.w /\ player'.h = player.h
          /\ keys' = keys]_vars

\* An update has just moved the player to the right, away from its starting
\* place, without reaching the edge.
PlayerMovedRightFreely ==
  /\ event.op = "loop update"
  /\ keys.right /\ ~keys.left
  /\ ~PlayerAtStart(player)
  /\ player.x > 0
  /\ player.x < canvas.width - player.w

\* A run is in the state resetGame produced and no key is held.
FreshRun ==
  /\ running
  /\ elapsed = 0 /\ spawnTimer = 0 /\ spawnInterval = Seconds(900)
  /\ blocks = <<>>
  /\ PlayerAtStart(player)
  /\ ~keys.left /\ ~keys.right

\* An update of 1 s has just run from the state resetGame produced.
FirstSecondUpdate == FreshRun /\ event'.op = "loop update" /\ elapsed' = MsPerSecond

\* C13 as stated: from the state resetGame produced, update(1.0) with no key
\* held leaves player.x unchanged, gives elapsed = 1 s and spawnInterval =
\* 0.88 s, and no spawn is due: the timer keeps the second and no block is
\* added.
FirstSecondWithoutSpawn ==
  [][FirstSecondUpdate =>
       /\ player'.x = player.x
       /\ spawnInterval' = Seconds(880)
       /\ spawnTimer' = MsPerSecond
       /\ blocks' = <<>>]_vars

\* C13 amended: from the state resetGame produced, update(1.0) with no key
\* held leaves player.x unchanged, gives elapsed = 1 s and spawnInterval =
\* 0.88 s, and a spawn is due (1 s >= 0.88 s): the timer is back at 0 and
\* the one block spawned is in play unless it already fell past the bottom
\* edge.
FirstSecondSpawns ==
  [][FirstSecondUpdate =>
       /\ player'.x = player.x
       /\ spawnInterval' = Seconds(880)
       /\ spawnTimer' = 0
       /\ Len(blocks') <= 1
       /\ \A i \in DOMAIN blocks' :
            blocks'[i].y = blocks'[i].speed * MsPerSecond - blocks'[i].w]_vars

\* The first second of a run has been played with no key held, and the block
\* spawned in it is in play.
FirstSecondPlayed ==
  /\ event.op = "loop update"
  /\ elapsed = MsPerSecond
  /\ spawnInterval = Seconds(880)
  /\ spawnTimer = 0
  /\ PlayerAtStart(player)
  /\ ~keys.left /\ ~keys.right
  /\ Len(blocks) = 1
  /\ blocks[1].y = blocks[1].speed * MsPerSecond - blocks[1].w

\* The block at the end of s was spawned in a frame of length dt: it has
\* fallen speed * dt from its starting height -w.
FreshLast(s, dt) ==
  /\ s # <<>>
  /\ s[Len(s)].y = s[Len(s)].speed * dt - s[Len(s)].w
  /\ s[Len(s)].h = s[Len(s)].w

\* C14: an update of length dt spawns a block iff spawnTimer + dt reaches the
\* interval that update computed, and then exactly one, however long the
\* frame: spawnTimer is 0 afterwards and the blocks are the surviving earlier
\* ones followed by the new one (which is absent only if the frame was long
\* enough for a new block to fall past the bottom edge).  Otherwise
\* spawnTimer has grown by dt and no block was added.
OneSpawnPerUpdate ==
  [][event'.op = "loop update" =>
       LET dt == elapsed' - elapsed
           kept == Survivors(blocks, dt)
           due == Seconds(spawnTimer + dt) >= spawnInterval'
           fallsThrough == (Rate(180) + elapsed') * dt > canvas.height + 30 * Px
       IN IF due
            THEN /\ spawnTimer' = 0
                 /\ \/ fallsThrough /\ blocks' = kept
                    \/ /\ Len(blocks') = Len(kept) + 1
                       /\ SubSeq(blocks', 1, Len(kept)) = kept
                       /\ FreshLast(blocks', dt)
            ELSE /\ spawnTimer' = spawnTimer + dt
                 /\ blocks' = kept]_vars

\* An update has just spawned one block behind an earlier one, in a frame
\* longer than the spawn interval.
SpawnedBehindAnother ==
  /\ event.op = "loop update"
  /\ spawnTimer = 0
  /\ Len(blocks) = 2
  /\ FreshLast(blocks, MsPerSecond)
  /\ Seconds(MsPerSecond) > spawnInterval

\* The game time by which block b has left the playfield.  b was spawned
\* when elapsed was at most b.speed - 120 px/s (in the units of the model a
\* millisecond of elapsed adds one unit of speed), and it has fallen
\* b.speed * (time played since) from -b.w: so while it is in play
\* b.speed * (elapsed - (b.speed - Rate(120))) <= canvas.height + b.w.
WithinLifetime(b) ==
  b.speed * (elapsed - (b.speed - Rate(120))) <= canvas.height + b.w

\* Every block in play is within its lifetime, is at least as fast as the
\* slowest block and has not passed the bottom edge; a reset, which puts
\* elapsed back to 0, leaves no block.
BlocksWithinLifetime ==
  /\ \A i \in DOMAIN blocks : WithinLifetime(blocks[i])
  /\ \A i \in DOMAIN blocks : blocks[i].speed >= Rate(120) /\ blocks[i].y <= canvas.height
  /\ elapsed = 0 => blocks = <<>>

\* No longer frame fits in the game time that the model explores.
GameTimeExplored == \A d \in DtSet : elapsed + d > MaxElapsed

\* C15: no block stays for ever.  Every block in play is within its
\* lifetime, a bound on elapsed fixed when it was spawned; and while the
\* refreshes that begin are completed, the elapsed time of a running game
\* grows past every such bound (as far as the model explores game time)
\* unless the run ends first; the blocks of a run that ended are gone when
\* elapsed is 0 again, after the next reset.
NoBlockStays ==
  /\ []BlocksWithinLifetime
  /\ ([]<>Idle) => (running ~> (~running \/ GameTimeExplored))

\* A block of a running game is on its last frame: the shortest frame takes
\* it past the bottom edge.
BlockOnLastFrame ==
  /\ event.op = "loop update"
  /\ running
  /\ \E i \in DOMAIN blocks :
       /\ blocks[i].y > 0
       /\ blocks[i].y + blocks[i].speed * 500 > canvas.height

\* The geometry spawnBlock gives a block, y aside, when elapsed is e at the
\* spawn: whole numbers of pixels for w and x, 30 <= w <= 69, h = w,
\* 0 <= x and x + w <= canvas.width, one of the two shapes, and
\* 120 + 20 e <= speed < 180 + 20 e (px/s, e in seconds).
SpawnGeometry(b, e) ==
  /\ b.w % Px = 0 /\ 30 * Px <= b.w /\ b.w <= 69 * Px
  /\ b.h = b.w
  /\ b.x % Px = 0 /\ 0 <= b.x /\ b.x + b.w <= canvas.width
  /\ b.shape \in {"rect", "circle"}
  /\ Rate(120) + e <= b.speed /\ b.speed < Rate(180) + e

\* C16: every block in play has the geometry it was spawned with, y aside.
\* A block that an update appends has the spawn geometry for the elapsed
\* time of that update, the earlier blocks an update keeps differ from what
\* they were in y only, no other step changes a block (a reset removes them
\* all), and so every block in play has the spawn geometry for some elapsed
\* time between 0 and now (the least one that its speed allows).
BlockGeometryKept ==
  /\ [](\A i \in DOMAIN blocks :
          LET e == Max(0, blocks[i].speed - Rate(180) + 1)
          IN e <= elapsed /\ SpawnGeometry(blocks[i], e))
  /\ [][IF event'.op = "loop update"
          THEN LET kept == Survivors(blocks, elapsed' - elapsed)
               IN \/ blocks' = kept
                  \/ /\ Len(blocks') = Len(kept) + 1
                     /\ SubSeq(blocks', 1, Len(kept)) = kept
                     /\ SpawnGeometry(blocks'[Len(blocks')], elapsed')
          ELSE blocks' = blocks \/ blocks' = <<>>]_vars

\* Blocks spawned at different times of a run are falling, the later one
\* faster than any block of the first second can be.
BlocksOfTwoAges ==
  /\ event.op = "loop update"
  /\ \E i, j \in DOMAIN blocks :
       /\ i < j
       /\ blocks[i].y > 0
       /\ blocks[j].speed >= Rate(180) + MsPerSecond

\* s with the block that a frame of length dt left at the end of t put back
\* at the height it had before that frame.
WithLastOf(s, t, dt) ==
  Append(s, [t[Len(t)] EXCEPT !.y = @ - t[Len(t)].speed * dt])

\* C17: an update visits every block once, those before a removed block and
\* those after a block that hit the player included.  With dt its length,
\* the blocks it leaves are the blocks the loop started with (the earlier
\* ones, and after them the one it spawned at y = -w, if any), each advanced
\* by speed * dt once, without those that went past the bottom edge; and
\* the game is still running afterwards iff none of the blocks left overlaps
\* the player.
EveryBlockVisitedOnce ==
  [][event'.op = "loop update" =>
       LET dt == elapsed' - elapsed
           n == Len(blocks')
       IN /\ \/ blocks' = Survivors(blocks, dt)
             \/ /\ n > 0
                /\ blocks'[n].y - blocks'[n].speed * dt = -blocks'[n].w
                /\ blocks' = Survivors(WithLastOf(blocks, blocks', dt), dt)
          /\ running' = ~\E i \in DOMAIN blocks' : checkCollision(player', blocks'[i])]_vars

\* An update has ended the game with the block it visited first, and went
\* on to advance an earlier block that does not touch the player.
HitBeforeOthers ==
  /\ event.op = "loop update"
  /\ ~running
  /\ Len(blocks) >= 2
  /\ checkCollision(player, blocks[Len(blocks)])
  /\ ~checkCollision(player, blocks[1])

\* C18: at most one frame callback is registered at any time, counting the
\* callbacks that wait for the next refresh and those of the refresh under
\* way that have not run yet (so no refresh runs update twice).
AtMostOneCallback == Len(rafQueue) + Len(frame) <= 1

\* Block b and the player p share a stretch of the x axis.
OverPlayer(b, p) == b.x < p.x + p.w /\ p.x < b.x + b.w

\* C19: no block passes through the player undetected.  If before an
\* update a block lies entirely above the player and horizontally over it
\* (where the player is before and after the update), and after falling
\* speed * dt it lies entirely below the player or is removed, then the game
\* is not running after that update.
NoBlockPassesThrough ==
  [][event'.op = "loop update" =>
       \A i \in DOMAIN blocks :
         LET b == blocks[i]
             y == b.y + b.speed * (elapsed' - elapsed)
         IN (/\ b.y + b.h <= player.y
             /\ OverPlayer(b, player) /\ OverPlayer(b, player')
             /\ y >= player.y + player.h)
            => ~running']_vars

\* C20: between events the score display shows the current elapsed with two
\* decimals: 0 after a reset, the new elapsed after every update of the
\* frame loop, and after the game has ended the elapsed of the last update.
ScoreShowsElapsed ==
  Idle => /\ scoreEl = <<"Score: ", formatTime(elapsed)>>
          /\ (event.op \in {"load", "click"} /\ elapsed = 0) => scoreEl[2] = 0

\* The game has ended in an update and the display shows a score above 0.
FinalScoreShown ==
  /\ Idle
  /\ event.op = "loop update"
  /\ ~running
  /\ scoreEl[2] > 0

====
